---------------------------- MODULE Spec2Model ----------------------------
(***************************************************************************)
(* Recipe Dredger: the acquisition pipeline of src/dredger.py (persistent  *)
(* state store, retry pass, site loop, sitemap cache, import dispatch) and *)
(* the audit job of src/maintenance/master_cleaner.py working on the same  *)
(* persisted files.                                                        *)
(*                                                                         *)
(* Time is counted in whole hours.  URLs, sites and backends are small     *)
(* integers.  What a remote server answers is chosen at the moment of the  *)
(* request.  The files under data/ are inputs of a run: the first run      *)
(* starts from an empty imported/rejected set and sitemap cache and from   *)
(* any well-formed retry-queue file.                                       *)
(***************************************************************************)
EXTENDS Integers, Sequences, FiniteSets, TLC

\* ------------------------------------------------------------------ bounds
MaxUrls == 2

MaxSites == 1

MaxRuns == 2

MaxTicks == 2

MaxAudits == 1

MaxCalls == 2

MaxClock == 6

MaxDocs == 2

MaxLocs == 4

MaxPieces == 2

MaxPages == 2

MaxSlug == 4

MaxTarget == 1

Urls == 1..MaxUrls

Sites == 1..MaxSites

\* ------------------------------------------------------- program constants
FLUSH_THRESHOLD == 50

CACHE_EXPIRY_DAYS == 7

HOURS_PER_DAY == 24

MAX_RETRY_ATTEMPTS == 3

MIN_RETRY_INTERVAL_HOURS == 1

DEFAULT_TARGET == 50

DEFAULT_DEPTH == 1000

\* CRAWL_DELAY's default, in seconds; the rate limiter's clock counts half
\* seconds
DEFAULT_CRAWL_DELAY == 2

TICKS_PER_SECOND == 2

\* last_attempt '' or missing (falsy), and a string fromisoformat rejects
NoTime == -1

BadTime == -2

\* a request that raised instead of answering (timeout, connection error,
\* the adapter's retries exhausted on 5xx/429)
EXC == 0

None == "none"

\* the two historical Mealie API shapes, newest first
ENDPOINT_NEW == "/api/recipes/create/url"

ENDPOINT_OLD == "/api/recipes/create-url"

MealieEndpoints == <<ENDPOINT_NEW, ENDPOINT_OLD>>

MealieStatuses == {201, 409, 404, 405, 400, EXC}

TandoorStatuses == {201, 409, 400, EXC}

VerifyOutcomes == {"recipe", "not_recipe", "transient"}

\* hours that may pass between two runs: under the cooldown is no tick at
\* all, then the cooldown, one day, exactly the cache expiry, eight days
Gaps == {MIN_RETRY_INTERVAL_HOURS, HOURS_PER_DAY,
         CACHE_EXPIRY_DAYS * HOURS_PER_DAY, (CACHE_EXPIRY_DAYS + 1) * HOURS_PER_DAY}

\* netloc of a URL: the site that lists it; the backends have their own
UrlDomain(u) == ((u - 1) % MaxSites) + 1

MealieDomain == MaxSites + 1

TandoorDomain == MaxSites + 2

\* ----------------------------------------------------------------- helpers
Range(s) == {s[i] : i \in 1..Len(s)}

\* every ordering of a finite set, as a sequence
Orderings(S) == {s \in [1..Cardinality(S) -> S] : Range(s) = S}

\* every shuffle of a sequence (random.shuffle)
Shuffles(s) ==
  {[i \in 1..Len(s) |-> s[p[i]]] : p \in Orderings(1..Len(s))}

Prefix(s, n) == SubSeq(s, 1, IF n < Len(s) THEN n ELSE Len(s))

Drop(f, K) == [x \in (DOMAIN f) \ K |-> f[x]]

Put(f, k, v) == [x \in (DOMAIN f) \cup {k} |-> IF x = k THEN v ELSE f[x]]

EmptyMap == [x \in {} |-> 0]

\* ---------------------------------------------------------- StorageManager
\* A store value S pairs the manager's memory with the files it writes.
EmptyFiles ==
  [rejects |-> {}, imported |-> {}, retry_queue |-> EmptyMap,
   stats |-> EmptyMap, sitemap_cache |-> EmptyMap]

EmptyMem ==
  [rejects |-> {}, imported |-> {}, retry_queue |-> EmptyMap,
   stats |-> EmptyMap, sitemap_cache |-> EmptyMap, changes |-> 0]

\* StorageManager.__init__: every collection read from its file
LoadStore(files) ==
  [rejects |-> files.rejects, imported |-> files.imported,
   retry_queue |-> files.retry_queue, stats |-> files.stats,
   sitemap_cache |-> files.sitemap_cache, changes |-> 0]

flush_all(S) ==
  [mem |-> [S.mem EXCEPT !.changes = 0],
   dk  |-> [rejects |-> S.mem.rejects, imported |-> S.mem.imported,
            retry_queue |-> S.mem.retry_queue, stats |-> S.mem.stats,
            sitemap_cache |-> S.mem.sitemap_cache]]

\* variant: the flush waits until the counter has passed the threshold
auto_flush_late(S) ==
  IF S.mem.changes > FLUSH_THRESHOLD THEN flush_all(S) ELSE S

auto_flush(S) ==
  IF S.mem.changes >= FLUSH_THRESHOLD THEN flush_all(S) ELSE S

add_imported(S, url) ==
  auto_flush([S EXCEPT !.mem.imported = @ \cup {url}, !.mem.changes = @ + 1])

add_reject(S, url) ==
  auto_flush([S EXCEPT !.mem.rejects = @ \cup {url}, !.mem.changes = @ + 1])

add_retry(S, url, reason, t) ==
  auto_flush([S EXCEPT
    !.mem.retry_queue =
       Put(@, url, [reason |-> reason, attempts |-> 0, last_attempt |-> t]),
    !.mem.changes = @ + 1])

\* stats is the record SiteStats.to_dict gives
update_stats(S, site_url, stats) ==
  auto_flush([S EXCEPT !.mem.stats = Put(@, site_url, stats),
                       !.mem.changes = @ + 1])

cache_sitemap(S, site_url, sitemap_url, urls, t) ==
  auto_flush([S EXCEPT
    !.mem.sitemap_cache =
       Put(@, site_url, [sitemap_url |-> sitemap_url, urls |-> urls,
                         timestamp |-> t]),
    !.mem.changes = @ + 1])

\* variant: an entry expires on reaching the expiry age, not on passing it
get_cached_sitemap_expiring_early(mem, site_url, t) ==
  IF site_url \notin DOMAIN mem.sitemap_cache THEN <<>>
  ELSE IF t - mem.sitemap_cache[site_url].timestamp
            >= CACHE_EXPIRY_DAYS * HOURS_PER_DAY THEN <<>>
  ELSE <<mem.sitemap_cache[site_url]>>

\* get_cached_sitemap raises: the entry's timestamp is no ISO date, and
\* datetime.fromisoformat (line 216) is inside no try
cached_sitemap_raises(mem, site_url) ==
  /\ site_url \in DOMAIN mem.sitemap_cache
  /\ mem.sitemap_cache[site_url].timestamp = BadTime

\* <<>> for None, <<entry>> for a fresh entry
get_cached_sitemap(mem, site_url, t) ==
  IF site_url \notin DOMAIN mem.sitemap_cache THEN <<>>
  ELSE IF t - mem.sitemap_cache[site_url].timestamp
            > CACHE_EXPIRY_DAYS * HOURS_PER_DAY THEN <<>>
  ELSE <<mem.sitemap_cache[site_url]>>

\* ------------------------------------------------------------- RateLimiter
\* get_crawl_delay: a domain's delay is resolved once per session, with a
\* GET of the domain's robots.txt; TRUE iff this call issues that request
RobotsFetched(delays, domain) == domain \notin delays

\* wait_if_needed, as far as the session's memo of resolved domains goes
wait_if_needed(delays, domain) == delays \cup {domain}

\* ----------------------------------------------------------- ImportManager
NoImport == [ok |-> FALSE, memo |-> None, posts |-> <<>>, created |-> FALSE]

\* variant: the first endpoint tried is remembered, whatever it answered
try_endpoints_hasty(endpoints, memo, resp, posts) ==
  IF endpoints = <<>>
  THEN [ok |-> FALSE, memo |-> memo, posts |-> posts, created |-> FALSE]
  ELSE [ok      |-> resp[Head(endpoints)] \in {200, 201, 409},
        memo    |-> IF memo = None THEN Head(endpoints) ELSE memo,
        posts   |-> Append(posts, Head(endpoints)),
        created |-> resp[Head(endpoints)] \in {200, 201}]

\* the for-loop of import_to_mealie over the endpoints to try
RECURSIVE try_endpoints(_, _, _, _)
try_endpoints(endpoints, memo, resp, posts) ==
  IF endpoints = <<>>
  THEN [ok |-> FALSE, memo |-> memo, posts |-> posts, created |-> FALSE]
  ELSE LET endpoint == Head(endpoints)
           status   == resp[endpoint]
           sent     == Append(posts, endpoint)
       IN IF status = EXC \/ status \in {404, 405}
          THEN try_endpoints(Tail(endpoints), memo, resp, sent)
          ELSE [ok      |-> status \in {200, 201} \/ status = 409,
                memo    |-> IF memo = None THEN endpoint ELSE memo,
                posts   |-> sent,
                created |-> status \in {200, 201}]

\* variant: every call probes the endpoints from the first
import_to_mealie_probing(dry_run, memo, resp) ==
  IF dry_run
  THEN [ok |-> TRUE, memo |-> memo, posts |-> <<>>, created |-> FALSE]
  ELSE try_endpoints(MealieEndpoints, memo, resp, <<>>)

\* variant: the dry-run switch is not consulted
import_to_mealie_live(dry_run, memo, resp) ==
  try_endpoints(IF memo # None THEN <<memo>> ELSE MealieEndpoints,
                memo, resp, <<>>)

import_to_mealie(dry_run, memo, resp) ==
  IF dry_run
  THEN [ok |-> TRUE, memo |-> memo, posts |-> <<>>, created |-> FALSE]
  ELSE try_endpoints(IF memo # None THEN <<memo>> ELSE MealieEndpoints,
                     memo, resp, <<>>)

import_to_tandoor(dry_run, status) ==
  IF dry_run
  THEN [ok |-> TRUE, posts |-> <<>>, created |-> FALSE]
  ELSE [ok |-> status \in {200, 201}, posts |-> <<"/api/recipe/import-url/">>,
        created |-> status \in {200, 201}]

\* the record import_recipe comes to, from what the two backends came to
\* (m, t) and the backends whose import function was called
ImportResult(c, m, t, called) ==
  [ok       |-> m.ok \/ t.ok,
   mok      |-> m.ok,
   tok      |-> t.ok,
   called   |-> called,
   memo     |-> m.memo,
   mposts   |-> m.posts,
   tposts   |-> t.posts,
   mcreated |-> m.created,
   tcreated |-> t.created,
   domains  |-> (IF "mealie" \in called /\ ~c.dry_run THEN {MealieDomain}
                 ELSE {})
                \cup (IF "tandoor" \in called /\ ~c.dry_run
                      THEN {TandoorDomain} ELSE {})]

NoTandoor == [ok |-> FALSE, posts |-> <<>>, created |-> FALSE]

\* variant: the second backend is asked only when the first did not accept
import_recipe_first_wins(c, memo, mresp, tstatus) ==
  LET m == IF c.mealie THEN import_to_mealie(c.dry_run, memo, mresp)
           ELSE [NoImport EXCEPT !.memo = memo]
      asked == c.tandoor /\ ~m.ok
      t == IF asked THEN import_to_tandoor(c.dry_run, tstatus) ELSE NoTandoor
  IN ImportResult(c, m, t, (IF c.mealie THEN {"mealie"} ELSE {})
                           \cup (IF asked THEN {"tandoor"} ELSE {}))

\* import_recipe: c is the run's configuration, memo the working endpoint
import_recipe(c, memo, mresp, tstatus) ==
  LET m == IF c.mealie THEN import_to_mealie(c.dry_run, memo, mresp)
           ELSE [NoImport EXCEPT !.memo = memo]
      t == IF c.tandoor THEN import_to_tandoor(c.dry_run, tstatus)
           ELSE NoTandoor
  IN ImportResult(c, m, t, (IF c.mealie THEN {"mealie"} ELSE {})
                           \cup (IF c.tandoor THEN {"tandoor"} ELSE {}))

MealieResponses == [Range(MealieEndpoints) -> MealieStatuses]

\* the write requests of one import_recipe call
ImportWrites(r) ==
  (IF r.mposts # <<>> THEN {"POST mealie"} ELSE {})
  \cup (IF r.tposts # <<>> THEN {"POST tandoor"} ELSE {})

\* ------------------------------------------------------ process_retry_queue
\* variants of the first loop: the cooldown test before the budget test
\* (budget_first false), and a cooldown that still holds at its last hour
\* (inclusive)
RECURSIVE scan_variant(_, _, _, _, _, _, _)
scan_variant(S, items, t, elig, done, budget_first, inclusive) ==
  IF items = <<>> THEN [S |-> S, eligible |-> elig, completed |-> done]
  ELSE LET url  == Head(items)
           info == S.mem.retry_queue[url]
           gap  == t - info.last_attempt
           cooling == /\ info.last_attempt # NoTime
                      /\ info.last_attempt # BadTime
                      /\ IF inclusive THEN gap <= MIN_RETRY_INTERVAL_HOURS
                         ELSE gap < MIN_RETRY_INTERVAL_HOURS
           spent == info.attempts >= MAX_RETRY_ATTEMPTS
       IN IF spent /\ (budget_first \/ ~cooling)
          THEN scan_variant(add_reject(S, url), Tail(items), t, elig,
                            Append(done, url), budget_first, inclusive)
          ELSE IF cooling
          THEN scan_variant(S, Tail(items), t, elig, done, budget_first,
                            inclusive)
          ELSE scan_variant(S, Tail(items), t, Append(elig, url), done,
                            budget_first, inclusive)

retry_scan_cooldown_first(S, items, t, elig, done) ==
  scan_variant(S, items, t, elig, done, FALSE, FALSE)

retry_scan_inclusive(S, items, t, elig, done) ==
  scan_variant(S, items, t, elig, done, TRUE, TRUE)

\* variant of the second loop: a failed import leaves the entry as it was
retry_eval_forgetful(S, url, is_recipe, import_ok, t) ==
  IF is_recipe
  THEN IF import_ok
       THEN [S |-> add_imported(S, url), count |-> 1, completed |-> <<url>>]
       ELSE [S |-> S, count |-> 0, completed |-> <<>>]
  ELSE [S |-> add_reject(S, url), count |-> 0, completed |-> <<url>>]

\* the first loop: exhausted entries are rejected, entries inside the
\* cooldown are passed over, the rest are eligible
RECURSIVE retry_scan(_, _, _, _, _)
retry_scan(S, items, t, elig, done) ==
  IF items = <<>> THEN [S |-> S, eligible |-> elig, completed |-> done]
  ELSE LET url  == Head(items)
           info == S.mem.retry_queue[url]
       IN IF info.attempts >= MAX_RETRY_ATTEMPTS
          THEN retry_scan(add_reject(S, url), Tail(items), t, elig,
                          Append(done, url))
          ELSE IF /\ info.last_attempt # NoTime
                  /\ info.last_attempt # BadTime
                  /\ t - info.last_attempt < MIN_RETRY_INTERVAL_HOURS
          THEN retry_scan(S, Tail(items), t, elig, done)
          ELSE retry_scan(S, Tail(items), t, Append(elig, url), done)

\* variant of the second loop: a resolved entry leaves the queue at once
retry_eval_popping(S, url, is_recipe, import_ok, t) ==
  IF is_recipe /\ ~import_ok
  THEN [S |-> [S EXCEPT !.mem.retry_queue[url] =
                 [@ EXCEPT !.attempts = @ + 1, !.last_attempt = t]],
        count |-> 0, completed |-> <<>>]
  ELSE LET R == IF is_recipe THEN add_imported(S, url) ELSE add_reject(S, url)
       IN [S |-> [R EXCEPT !.mem.retry_queue = Drop(@, {url})],
           count |-> IF is_recipe THEN 1 ELSE 0, completed |-> <<url>>]

\* the outcome of one eligible URL in the second loop
retry_eval(S, url, is_recipe, import_ok, t) ==
  IF is_recipe
  THEN IF import_ok
       THEN [S |-> add_imported(S, url), count |-> 1, completed |-> <<url>>]
       ELSE [S |-> [S EXCEPT !.mem.retry_queue[url] =
                      [@ EXCEPT !.attempts = @ + 1, !.last_attempt = t]],
             count |-> 0, completed |-> <<>>]
  ELSE [S |-> add_reject(S, url), count |-> 0, completed |-> <<url>>]

\* the last loop: the resolved URLs leave the queue together
retry_finish(mem, done) ==
  [mem EXCEPT !.retry_queue = Drop(@, Range(done))]

\* ------------------------------------------------------------ the site loop
\* variant: a candidate is recorded as imported whatever verify_recipe said
site_eval_trusting(S, url, is_recipe, import_ok) ==
  [S |-> add_imported(S, url), count |-> 1]

\* the outcome of one candidate that is not skipped (main, lines 904-921)
site_eval(S, url, is_recipe, import_ok) ==
  IF is_recipe
  THEN IF import_ok
       THEN [S |-> add_imported(S, url), count |-> 1]
       ELSE [S |-> S, count |-> 0]
  ELSE [S |-> add_reject(S, url), count |-> 0]

\* what find_sitemap may come to: the sitemap named by robots.txt, one of the
\* conventional paths answering a HEAD with 200, or nothing
FindOutcomes == {"directive", "probe", "none"}

FindRequests(f) ==
  IF f = "directive" THEN {"robots"} ELSE {"robots", "head"}

\* the remote sitemap of a site lists the site's URLs, in ascending order
RECURSIVE Ascending(_)
Ascending(S) ==
  IF S = {} THEN <<>>
  ELSE LET m == CHOOSE x \in S : \A y \in S : x <= y
       IN <<m>> \o Ascending(S \ {m})

SiteUrls(site) == Ascending({u \in Urls : UrlDomain(u) = site})

\* what fetch_sitemap_urls may return for a site: the list of its sitemap,
\* or the empty list for a document that cannot be fetched or parsed
SitemapLists(site) == {<<>>, SiteUrls(site)}

\* ------------------------------------------------------------------- state
VARIABLES
  disk,             \* the files under data/: rejects, imported, retry_queue, stats, sitemap_cache
  store,            \* StorageManager of the running pipeline (EmptyMem when none runs)
  pc,               \* where main() is: idle, sync, retry, retry_eval, sites, shuffle, cands, end
  cfg,              \* the run's configuration (arguments and environment)
  now,              \* the clock, in hours
  ticks,            \* clock advances so far
  runs,             \* runs started so far
  kill_now,         \* GracefulKiller.kill_now
  working_endpoint, \* ImportManager.working_endpoint
  crawl_delays,     \* RateLimiter.crawl_delays: the domains resolved this session
  eligible,         \* process_retry_queue: eligible URLs still to evaluate
  completed_urls,   \* process_retry_queue: completed_urls
  ret_count,        \* process_retry_queue: imported_count
  sites_left,       \* main: the shuffled sites not yet finished, current first
  raw_candidates,   \* main: what get_urls_for_site returned for the current site
  cands,            \* main: the shuffled candidates not yet reached
  imported_count,   \* main: imported_count of the current site
  mealie_lib,       \* URLs the Mealie backend holds
  tandoor_lib,      \* URLs the Tandoor backend holds
  audit,            \* the audit job (master_cleaner.py)
  audits,           \* audit jobs started so far
  log,              \* history: the evaluations (fetch, verify, import) of this run
  writes,           \* history: the write requests the pipeline sent this run
  reqs,             \* history: the requests of the current site's processing
  pass0,            \* history: the retry queue and the clock when the pass scanned it
  evals,            \* history: evaluations per URL by retry passes, all runs
  queue0,           \* history: the retry-queue file before the first run
  last,             \* history: the candidate the site loop reached last
  calls,            \* import_recipe calls of an importer session so far
  last_call,        \* history: the latest import_recipe call of the session
  limiter,          \* RateLimiter: its clock, last_request, and the last wait
  web,              \* the sitemap documents a site serves, and what a crawl made of them
  page              \* a page given to verify_recipe, and the verdict

vars ==
  <<disk, store, pc, cfg, now, ticks, runs, kill_now, working_endpoint,
    crawl_delays, eligible, completed_urls, ret_count, sites_left,
    raw_candidates, cands, imported_count, mealie_lib, tandoor_lib, audit,
    audits, log, writes, reqs, pass0, evals, queue0, last, calls, last_call,
    limiter, web, page>>

pipeline_locals ==
  <<eligible, completed_urls, ret_count, sites_left, raw_candidates, cands,
    imported_count>>

world == <<mealie_lib, tandoor_lib>>

clock == <<now, ticks>>

history ==
  <<log, writes, reqs, pass0, evals, queue0, last, calls, last_call>>

NoConfig ==
  [dry_run |-> FALSE, force_refresh |-> FALSE, mealie |-> FALSE,
   tandoor |-> FALSE, sync |-> FALSE, target |-> 0, depth |-> 0]

RetryEntries ==
  [reason : {"import failed"}, attempts : 0..MAX_RETRY_ATTEMPTS,
   last_attempt : {NoTime, BadTime, 0}]

\* every well-formed retry-queue file over the URLs
RetryQueues == UNION {[D -> RetryEntries] : D \in SUBSET Urls}

AuditIdle ==
  [pc |-> "idle", dry |-> FALSE, rejects |-> {}, mtasks |-> {}, ttasks |-> {},
   writes |-> {}]

NoReqs ==
  [site_url |-> 0, present |-> FALSE, age |-> 0, via_cache |-> FALSE,
   disc |-> {}, site |-> {}]

NoPass == [queue |-> EmptyMap, time |-> 0, imported |-> {}, rejects |-> {}]

NoLast == [url |-> 0, skipped |-> FALSE]

NoCall ==
  [url |-> 0, before |-> None, mresp |-> [e \in {} |-> 0], tstatus |-> 0,
   ok |-> FALSE, mok |-> FALSE, tok |-> FALSE, called |-> {},
   mposts |-> <<>>, tposts |-> <<>>]

\* RateLimiter.__init__: no domain has a last request or a resolved delay;
\* wait is the latest wait_if_needed: its domain, the delay it resolved and
\* the time since the previous return for that domain (NoTime: none before)
RateDomains == Sites \cup {MealieDomain}

NoLimiter ==
  [time |-> 0,
   last_request |-> [d \in RateDomains |-> NoTime],
   delays |-> [d \in RateDomains |-> NoTime],
   wait |-> [domain |-> 0, delay |-> 0, since |-> NoTime]]

\* no sitemap document is known yet, nothing was crawled
NoWeb == [docs |-> EmptyMap, crawled |-> FALSE, urls |-> <<>>, fetched |-> <<>>]

\* no page was verified yet
NoPage ==
  [url |-> <<>>, status |-> 0, structural |-> FALSE, title |-> FALSE,
   lang |-> "off", verified |-> FALSE, is_recipe |-> FALSE, reason |-> None,
   code |-> 0]

\* nothing has run; the files are one of F
FreshOn(F) ==
  /\ disk \in F
  /\ queue0 = disk.retry_queue
  /\ store = EmptyMem
  /\ now = 0
  /\ ticks = 0
  /\ runs = 0
  /\ kill_now = FALSE
  /\ working_endpoint = None
  /\ crawl_delays = {}
  /\ eligible = <<>>
  /\ completed_urls = <<>>
  /\ ret_count = 0
  /\ sites_left = <<>>
  /\ raw_candidates = <<>>
  /\ cands = <<>>
  /\ imported_count = 0
  /\ mealie_lib = {}
  /\ tandoor_lib = {}
  /\ audit = AuditIdle
  /\ audits = 0
  /\ log = {}
  /\ writes = {}
  /\ reqs = NoReqs
  /\ pass0 = NoPass
  /\ evals = [u \in Urls |-> 0]
  /\ last = NoLast
  /\ calls = 0
  /\ last_call = NoCall
  /\ limiter = NoLimiter
  /\ web = NoWeb
  /\ page = NoPage

\* the files are empty but for the retry queue, one of Q
Fresh(Q) == FreshOn({[EmptyFiles EXCEPT !.retry_queue = q] : q \in Q})

\* no process runs
InitWith(Q) ==
  /\ Fresh(Q)
  /\ pc = "idle"
  /\ cfg = NoConfig

\* ---------------------------------------------------------------- the clock
\* time passes between two runs: one of the gaps G
Tick(G) ==
  /\ pc = "idle"
  /\ ticks < MaxTicks
  /\ \E gap \in G : now' = now + gap
  /\ ticks' = ticks + 1
  /\ UNCHANGED <<disk, store, pc, cfg, runs, kill_now, working_endpoint,
                 crawl_delays, pipeline_locals, world, audit, audits, history,
                 limiter, web, page>>

\* ------------------------------------------------------------------- main()
\* main, lines 833-856: the configuration is fixed, the components are built
\* (the store loads the files) and the site list is loaded; its shuffle
\* (line 866) reads nothing the retry pass writes and is drawn here
StartRun(C, limit) ==
  /\ pc = "idle"
  /\ runs < limit
  /\ \E c \in C, order \in Orderings(Sites) :
       /\ cfg' = c
       /\ sites_left' = order
  /\ store' = LoadStore(disk)
  /\ pc' = "sync"
  /\ runs' = runs + 1
  /\ kill_now' = FALSE
  /\ working_endpoint' = None
  /\ crawl_delays' = {}
  /\ log' = {}
  /\ writes' = {}
  /\ reqs' = NoReqs
  /\ pass0' = NoPass
  /\ last' = NoLast
  /\ UNCHANGED <<disk, clock, eligible, completed_urls, ret_count,
                 raw_candidates, cands, imported_count, world, audit, audits,
                 evals, queue0, calls, last_call, limiter, web, page>>

\* sync_existing_library (one page of the listing: it is read or the request
\* fails); the URLs go into the set directly, not through add_imported
sync_existing_library(mem, c, listing_ok, library) ==
  IF c.sync /\ ~c.dry_run /\ c.mealie /\ listing_ok
  THEN [mem EXCEPT !.imported = @ \cup library]
  ELSE mem

SyncLibrary ==
  /\ pc = "sync"
  /\ \E listing_ok \in BOOLEAN :
       store' = sync_existing_library(store, cfg, listing_ok, mealie_lib)
  /\ pc' = "retry"
  /\ UNCHANGED <<disk, cfg, clock, runs, kill_now, working_endpoint,
                 crawl_delays, pipeline_locals, world, audit, audits, history,
                 limiter, web, page>>

\* process_retry_queue, lines 694-718
RetryScan ==
  /\ pc = "retry"
  /\ IF DOMAIN store.retry_queue = {}
     THEN /\ pc' = "sites"
          /\ UNCHANGED <<disk, store, eligible, completed_urls, pass0>>
     ELSE \E items \in Orderings(DOMAIN store.retry_queue) :
            LET r == retry_scan([mem |-> store, dk |-> disk], items, now,
                                <<>>, <<>>)
            IN /\ store' = r.S.mem
               /\ disk' = r.S.dk
               /\ eligible' = r.eligible
               /\ completed_urls' = r.completed
               /\ pass0' = [queue |-> store.retry_queue, time |-> now,
                            imported |-> store.imported,
                            rejects |-> store.rejects]
               /\ pc' = "retry_eval"
  /\ ret_count' = 0
  /\ UNCHANGED <<cfg, clock, runs, kill_now, working_endpoint, crawl_delays,
                 sites_left, raw_candidates, cands, imported_count, world,
                 audit, audits, log, writes, reqs, evals, queue0, last, calls,
                 last_call, limiter, web, page>>

\* one evaluation: the rate limiter, verify_recipe, import_recipe
Evaluate(url, phase, v, r) ==
  /\ crawl_delays' = wait_if_needed(crawl_delays, UrlDomain(url)) \cup r.domains
  /\ working_endpoint' = r.memo
  /\ mealie_lib' = IF r.mcreated THEN mealie_lib \cup {url} ELSE mealie_lib
  /\ tandoor_lib' = IF r.tcreated THEN tandoor_lib \cup {url} ELSE tandoor_lib
  /\ writes' = writes \cup ImportWrites(r)
  /\ log' = log \cup
       {[url |-> url, phase |-> phase,
         known |-> url \in store.imported \cup store.rejects,
         killed |-> kill_now,
         verify |-> v,
         imp |-> IF v # "recipe" THEN "none" ELSE IF r.ok THEN "ok" ELSE "fail"]}

\* the import a verified recipe gets, none for a page that is not one
Dispatch(v, c, memo, mresp, tstatus) ==
  IF v = "recipe" THEN import_recipe(c, memo, mresp, tstatus)
  ELSE ImportResult(c, [NoImport EXCEPT !.memo = memo], NoTandoor, {})

\* every <<verification outcome, import result>> the remote servers can
\* make of one evaluation
Outcomes(c, memo) ==
  {<<v, Dispatch(v, c, memo, mresp, tstatus)>> :
     v \in VerifyOutcomes, mresp \in MealieResponses,
     tstatus \in TandoorStatuses}

\* process_retry_queue, lines 723-737: one eligible URL
RetryEval ==
  /\ pc = "retry_eval"
  /\ eligible # <<>>
  /\ LET url == Head(eligible)
     IN \E o \in Outcomes(cfg, working_endpoint) :
          LET v == o[1]
              r == o[2]
              e == retry_eval([mem |-> store, dk |-> disk], url,
                              v = "recipe", r.ok, now)
          IN /\ Evaluate(url, "retry", v, r)
             /\ store' = e.S.mem
             /\ disk' = e.S.dk
             /\ ret_count' = ret_count + e.count
             /\ completed_urls' = completed_urls \o e.completed
             /\ evals' = [evals EXCEPT ![url] = @ + 1]
  /\ eligible' = Tail(eligible)
  /\ UNCHANGED <<pc, cfg, clock, runs, kill_now, sites_left, raw_candidates,
                 cands, imported_count, audit, audits, reqs, pass0, queue0,
                 last, calls, last_call, limiter, web, page>>

\* process_retry_queue, lines 739-745
RetryFinish ==
  /\ pc = "retry_eval"
  /\ eligible = <<>>
  /\ store' = retry_finish(store, completed_urls)
  /\ pc' = "sites"
  /\ UNCHANGED <<disk, cfg, clock, runs, kill_now, working_endpoint,
                 crawl_delays, pipeline_locals, world, audit, audits, history,
                 limiter, web, page>>

\* SitemapCrawler.get_urls_for_site: find is what find_sitemap comes to and
\* urls what fetch_sitemap_urls returns, should they be called
get_urls_for_site(S, site_url, force_refresh, t, find, urls) ==
  LET cached == IF force_refresh THEN <<>>
                ELSE get_cached_sitemap(S.mem, site_url, t)
  IN IF ~force_refresh /\ cached_sitemap_raises(S.mem, site_url)
     THEN [S |-> S, raw |-> <<>>, via_cache |-> FALSE, disc |-> {},
           raised |-> TRUE]
     ELSE IF cached # <<>>
     THEN [S |-> S, raw |-> cached[1].urls, via_cache |-> TRUE, disc |-> {},
           raised |-> FALSE]
     ELSE IF find = "none"
     THEN [S |-> S, raw |-> <<>>, via_cache |-> FALSE,
           disc |-> FindRequests(find), raised |-> FALSE]
     ELSE [S |-> cache_sitemap(S, site_url, site_url, urls, t), raw |-> urls,
           via_cache |-> FALSE, disc |-> FindRequests(find) \cup {"sitemap"},
           raised |-> FALSE]

\* main, lines 873-885: the next site, up to its candidate list
SiteNext ==
  /\ pc = "sites"
  /\ IF sites_left = <<>> \/ kill_now
     THEN /\ pc' = "end"
          /\ UNCHANGED <<disk, store, sites_left, raw_candidates, reqs>>
     ELSE LET site == Head(sites_left)
          IN \E find \in FindOutcomes, urls \in SitemapLists(site) :
               LET g == get_urls_for_site([mem |-> store, dk |-> disk], site,
                                          cfg.force_refresh, now, find, urls)
               IN /\ store' = g.S.mem
                  /\ disk' = g.S.dk
                  /\ raw_candidates' = g.raw
                  /\ reqs' =
                       [site_url  |-> site,
                        present   |-> site \in DOMAIN store.sitemap_cache,
                        age       |-> IF site \in DOMAIN store.sitemap_cache
                                      THEN now - store.sitemap_cache[site].timestamp
                                      ELSE 0,
                        via_cache |-> g.via_cache,
                        disc      |-> g.disc,
                        site      |-> {IF k = "robots" THEN "robots.txt"
                                       ELSE "sitemap" : k \in g.disc}]
                  /\ IF g.raised
                     THEN /\ sites_left' = sites_left
                          /\ pc' = "aborted"
                     ELSE IF g.raw = <<>>
                     THEN /\ sites_left' = Tail(sites_left)
                          /\ pc' = "sites"
                     ELSE /\ sites_left' = sites_left
                          /\ pc' = "shuffle"
  /\ UNCHANGED <<cfg, clock, runs, kill_now, working_endpoint, crawl_delays,
                 eligible, completed_urls, ret_count, cands, imported_count,
                 world, audit, audits, log, writes, pass0, evals, queue0, last,
                 calls, last_call, limiter, web, page>>

\* main, lines 887-890
SiteShuffle ==
  /\ pc = "shuffle"
  /\ cands' \in Shuffles(Prefix(raw_candidates, cfg.depth))
  /\ imported_count' = 0
  /\ pc' = "cands"
  /\ UNCHANGED <<disk, store, cfg, clock, runs, kill_now, working_endpoint,
                 crawl_delays, eligible, completed_urls, ret_count, sites_left,
                 raw_candidates, world, audit, audits, history, limiter, web, page>>

\* the requests a candidate's evaluation sends to the current site
CandidateRequests(url, site, delays) ==
  IF UrlDomain(url) # site THEN {}
  ELSE {"page"} \cup (IF RobotsFetched(delays, UrlDomain(url))
                      THEN {"robots.txt"} ELSE {})

\* variant: the loop is left once the count has passed the target
target_passed(count, target) ==
  count > target

\* main, line 896
target_reached(count, target) ==
  count >= target

\* variant: only an imported URL is passed over
already_imported(mem, url) ==
  url \in mem.imported

\* main, line 901
already_known(mem, url) ==
  url \in mem.imported \/ url \in mem.rejects

\* main, lines 891-921: one candidate
Candidate ==
  /\ pc = "cands"
  /\ cands # <<>>
  /\ ~kill_now
  /\ ~target_reached(imported_count, cfg.target)
  /\ LET url == Head(cands)
     IN IF already_known(store, url)
        THEN /\ last' = [url |-> url, skipped |-> TRUE]
             /\ UNCHANGED <<disk, store, working_endpoint, crawl_delays,
                            imported_count, world, log, writes, reqs>>
        ELSE \E o \in Outcomes(cfg, working_endpoint) :
               LET v == o[1]
                   r == o[2]
                   e == site_eval([mem |-> store, dk |-> disk], url,
                                  v = "recipe", r.ok)
               IN /\ Evaluate(url, "site", v, r)
                  /\ store' = e.S.mem
                  /\ disk' = e.S.dk
                  /\ imported_count' = imported_count + e.count
                  /\ last' = [url |-> url, skipped |-> FALSE]
                  /\ reqs' = [reqs EXCEPT !.site = @ \cup
                       CandidateRequests(url, Head(sites_left), crawl_delays)]
  /\ cands' = Tail(cands)
  /\ UNCHANGED <<pc, cfg, clock, runs, kill_now, eligible, completed_urls,
                 ret_count, sites_left, raw_candidates, audit, audits, pass0,
                 evals, queue0, calls, last_call, limiter, web, page>>

\* main, lines 893-897 and 923-927: the candidate loop is left and the
\* store is flushed
SiteEnd ==
  /\ pc = "cands"
  /\ cands = <<>> \/ kill_now \/ target_reached(imported_count, cfg.target)
  /\ LET S == flush_all([mem |-> store, dk |-> disk])
     IN /\ store' = S.mem
        /\ disk' = S.dk
  /\ sites_left' = Tail(sites_left)
  /\ cands' = <<>>
  /\ pc' = "sites"
  /\ UNCHANGED <<cfg, clock, runs, kill_now, working_endpoint, crawl_delays,
                 eligible, completed_urls, ret_count, raw_candidates,
                 imported_count, world, audit, audits, history, limiter, web, page>>

\* the process ends with its memory
Exit(at) ==
  /\ pc = at
  /\ pc' = "idle"
  /\ store' = EmptyMem
  /\ cfg' = NoConfig
  /\ kill_now' = FALSE
  /\ working_endpoint' = None
  /\ crawl_delays' = {}
  /\ eligible' = <<>>
  /\ completed_urls' = <<>>
  /\ ret_count' = 0
  /\ sites_left' = <<>>
  /\ raw_candidates' = <<>>
  /\ cands' = <<>>
  /\ imported_count' = 0
  /\ log' = {}
  /\ writes' = {}
  /\ reqs' = NoReqs
  /\ pass0' = NoPass
  /\ last' = NoLast
  /\ UNCHANGED <<disk, clock, runs, world, audit, audits, evals, queue0,
                 calls, last_call, limiter, web, page>>

\* main, lines 929-938: the summary, and the process ends
RunEnd == Exit("end")

\* an exception no handler catches leaves main: the process ends at once
Abort == Exit("aborted")

\* GracefulKiller.exit_gracefully: SIGINT or SIGTERM during a run
Signal ==
  /\ pc \in {"sync", "retry", "retry_eval", "sites", "shuffle", "cands"}
  /\ ~kill_now
  /\ kill_now' = TRUE
  /\ UNCHANGED <<disk, store, pc, cfg, clock, runs, working_endpoint,
                 crawl_delays, pipeline_locals, world, audit, audits, history,
                 limiter, web, page>>

\* ------------------------------------------------ the audit job (master_cleaner)
\* delete_mealie_recipe and delete_tandoor_recipe: a is the job's state, the
\* result says whether a DELETE was sent
delete_mealie_recipe(a, url) ==
  IF a.dry THEN a
  ELSE [a EXCEPT !.writes = @ \cup {"DELETE mealie"},
                 !.rejects = @ \cup {url}]

delete_tandoor_recipe(a, url) ==
  IF a.dry THEN a
  ELSE [a EXCEPT !.writes = @ \cup {"DELETE tandoor"},
                 !.rejects = @ \cup {url}]

\* lines 57 and 227-234: REJECTS is read from its file, the libraries are
\* listed; with no recipe to scan the job exits
AuditStart ==
  /\ audit.pc = "idle"
  /\ audits < MaxAudits
  /\ audits' = audits + 1
  /\ \E dry \in BOOLEAN :
       audit' = IF mealie_lib \cup tandoor_lib = {} THEN AuditIdle
                ELSE [pc |-> "scan", dry |-> dry, rejects |-> disk.rejects,
                      mtasks |-> mealie_lib, ttasks |-> tandoor_lib,
                      writes |-> {}]
  /\ UNCHANGED <<disk, store, pc, cfg, clock, runs, kill_now, working_endpoint,
                 crawl_delays, pipeline_locals, world, history, limiter, web, page>>

\* lines 238-264: one Mealie recipe is junk or broken and deleted, or kept
AuditMealie ==
  /\ audit.pc = "scan"
  /\ \E url \in audit.mtasks, doomed \in BOOLEAN, gone \in BOOLEAN :
       LET a == IF doomed THEN delete_mealie_recipe(audit, url) ELSE audit
       IN /\ audit' = [a EXCEPT !.mtasks = @ \ {url}]
          /\ mealie_lib' = IF doomed /\ ~audit.dry /\ gone
                           THEN mealie_lib \ {url} ELSE mealie_lib
  /\ UNCHANGED <<disk, store, pc, cfg, clock, runs, kill_now, working_endpoint,
                 crawl_delays, pipeline_locals, tandoor_lib, audits, history,
                 limiter, web, page>>

\* lines 238-264: one Tandoor recipe
AuditTandoor ==
  /\ audit.pc = "scan"
  /\ \E url \in audit.ttasks, doomed \in BOOLEAN, gone \in BOOLEAN :
       LET a == IF doomed THEN delete_tandoor_recipe(audit, url) ELSE audit
       IN /\ audit' = [a EXCEPT !.ttasks = @ \ {url}]
          /\ tandoor_lib' = IF doomed /\ ~audit.dry /\ gone
                            THEN tandoor_lib \ {url} ELSE tandoor_lib
  /\ UNCHANGED <<disk, store, pc, cfg, clock, runs, kill_now, working_endpoint,
                 crawl_delays, pipeline_locals, mealie_lib, audits, history,
                 limiter, web, page>>

\* lines 269-274: outside dry-run the REJECTS set replaces the file
AuditSave ==
  /\ audit.pc = "scan"
  /\ audit.mtasks = {}
  /\ audit.ttasks = {}
  /\ disk' = IF audit.dry THEN disk
             ELSE [disk EXCEPT !.rejects = audit.rejects]
  /\ audit' = AuditIdle
  /\ UNCHANGED <<store, pc, cfg, clock, runs, kill_now, working_endpoint,
                 crawl_delays, pipeline_locals, world, audits, history,
                 limiter, web, page>>

\* --------------------------------------------- a session of ImportManager
\* import_recipe called on a fresh ImportManager (__init__, lines 519-525),
\* any number of times, with any answers of the backends
ImportCall ==
  /\ pc = "import"
  /\ calls < MaxCalls
  /\ \E url \in Urls, mresp \in MealieResponses, tstatus \in TandoorStatuses :
       LET r == import_recipe(cfg, working_endpoint, mresp, tstatus)
       IN /\ working_endpoint' = r.memo
          /\ crawl_delays' = crawl_delays \cup r.domains
          /\ writes' = writes \cup ImportWrites(r)
          /\ mealie_lib' = IF r.mcreated THEN mealie_lib \cup {url}
                           ELSE mealie_lib
          /\ tandoor_lib' = IF r.tcreated THEN tandoor_lib \cup {url}
                            ELSE tandoor_lib
          /\ last_call' = [url |-> url, before |-> working_endpoint,
                           mresp |-> mresp, tstatus |-> tstatus, ok |-> r.ok,
                           mok |-> r.mok, tok |-> r.tok, called |-> r.called,
                           mposts |-> r.mposts, tposts |-> r.tposts]
  /\ calls' = calls + 1
  /\ UNCHANGED <<disk, store, pc, cfg, clock, runs, kill_now, pipeline_locals,
                 audit, audits, log, reqs, pass0, evals, queue0, last,
                 limiter, web, page>>

\* ----------------------------------------------------------- specifications
Cooldown == {MIN_RETRY_INTERVAL_HOURS}

\* retry-queue files of at most one entry, never attempted at a known time,
\* new or one failure short of the budget
SmallQueues ==
  {q \in RetryQueues :
     /\ Cardinality(DOMAIN q) <= 1
     /\ \A u \in DOMAIN q : /\ q[u].last_attempt = NoTime
                            /\ q[u].attempts \in {0, MAX_RETRY_ATTEMPTS - 1}}

Config(D, F, M, T) ==
  [dry_run : D, force_refresh : F, mealie : M, tandoor : T, sync : {TRUE},
   target : {DEFAULT_TARGET}, depth : {DEFAULT_DEPTH}]

\* The pipeline, run after run, a cooldown or none between two runs, with
\* shutdown signals; Mealie alone is enabled.
Init == InitWith(SmallQueues)

Next ==
  \/ Tick(Cooldown)
  \/ StartRun(Config(BOOLEAN, {FALSE}, {TRUE}, {FALSE}), MaxRuns)
  \/ SyncLibrary
  \/ RetryScan
  \/ RetryEval
  \/ RetryFinish
  \/ SiteNext
  \/ SiteShuffle
  \/ Candidate
  \/ SiteEnd
  \/ RunEnd
  \/ Signal

Spec == Init /\ [][Next]_vars

\* The retry pass of one run, over every retry-queue file.
InitRetry == InitWith(RetryQueues)

NextRetry ==
  \/ Tick(Cooldown)
  \/ StartRun(Config(BOOLEAN, {FALSE}, {TRUE}, {FALSE}), 1)
  \/ SyncLibrary
  \/ RetryScan
  \/ RetryEval
  \/ RetryFinish

SpecRetry == InitRetry /\ [][NextRetry]_vars

\* The sitemap cache over the runs, with every gap between two runs and
\* with and without --no-cache; the retry queue is empty.
InitCache == InitWith({EmptyMap})

NextCache ==
  \/ Tick(Gaps)
  \/ StartRun(Config({FALSE}, BOOLEAN, {TRUE}, {FALSE}), MaxRuns)
  \/ SyncLibrary
  \/ RetryScan
  \/ SiteNext
  \/ SiteShuffle
  \/ Candidate
  \/ SiteEnd
  \/ RunEnd

SpecCache == InitCache /\ [][NextCache]_vars

\* The pipeline and the audit job on the same files, both backends, in and
\* out of dry-run; the retry queue is empty.
NextAudit ==
  \/ StartRun(Config(BOOLEAN, {FALSE}, {TRUE}, BOOLEAN), MaxRuns)
  \/ SyncLibrary
  \/ RetryScan
  \/ SiteNext
  \/ SiteShuffle
  \/ Candidate
  \/ SiteEnd
  \/ RunEnd
  \/ AuditStart
  \/ AuditMealie
  \/ AuditTandoor
  \/ AuditSave

SpecAudit == InitCache /\ [][NextAudit]_vars

\* One session of the import dispatcher, under every configuration.
InitImport ==
  /\ Fresh({EmptyMap})
  /\ pc = "import"
  /\ cfg \in Config(BOOLEAN, {FALSE}, BOOLEAN, BOOLEAN)

SpecImport == InitImport /\ [][ImportCall]_vars

\* One URL's retry entry over more runs than the attempt budget, Mealie
\* alone, no dry-run.
NextBudget ==
  \/ Tick(Cooldown)
  \/ StartRun(Config({FALSE}, {FALSE}, {TRUE}, {FALSE}), MAX_RETRY_ATTEMPTS + 1)
  \/ SyncLibrary
  \/ RetryScan
  \/ RetryEval
  \/ RetryFinish
  \/ SiteNext
  \/ SiteShuffle
  \/ Candidate
  \/ SiteEnd
  \/ RunEnd

SpecBudget == Init /\ [][NextBudget]_vars

\* ------------------------------------------------------------- properties
\* what the retry pass of this run did with URL u
RetryEvents(u) == {e \in log : e.url = u /\ e.phase = "retry"}

\* an entry is due at t: no usable last_attempt, or the cooldown is over
Due(info, t) ==
  \/ info.last_attempt \in {NoTime, BadTime}
  \/ t - info.last_attempt >= MIN_RETRY_INTERVAL_HOURS

BelowBudget(info) == info.attempts < MAX_RETRY_ATTEMPTS

\* C1: whatever the pipeline and the audit job have done on the same files,
\* no URL is in the Imported set and in the Rejected set at the same time,
\* in memory or in the files.
ImportedRejectedDisjoint ==
  /\ store.imported \cap store.rejects = {}
  /\ disk.imported \cap disk.rejects = {}

\* C2: from the second run on, no URL that is already in the Imported or
\* the Rejected set is fetched again or submitted for import, by the retry
\* pass or by the site loop.
SecondRunRevisitsNothing ==
  runs >= 2 => \A e \in log : ~e.known

\* C3: a candidate of the site loop that verified as a recipe and whose
\* import failed has an entry in the retry queue.
FailedImportQueued ==
  \A e \in log :
    e.phase = "site" /\ e.verify = "recipe" /\ e.imp = "fail"
      => e.url \in DOMAIN store.retry_queue

\* C4: once the pass has scanned the queue, every entry that was at the
\* attempt budget is in the Rejected set and listed as completed, was not
\* fetched, verified or imported, and is out of the queue when the pass
\* ends, cooldown elapsed or not.
ExhaustedRejected ==
  pc \in {"retry_eval", "sites"} =>
    \A u \in DOMAIN pass0.queue :
      ~BelowBudget(pass0.queue[u]) =>
        /\ u \in store.rejects
        /\ RetryEvents(u) = {}
        /\ pc = "retry_eval" => u \in Range(completed_urls)
        /\ pc = "sites" => u \notin DOMAIN store.retry_queue

ExhaustedRejectedInsideCooldown ==
  /\ pc = "sites"
  /\ \E u \in DOMAIN pass0.queue :
       /\ pass0.queue[u].attempts = MAX_RETRY_ATTEMPTS
       /\ pass0.queue[u].last_attempt = pass0.time
       /\ u \in store.rejects
       /\ u \notin DOMAIN store.retry_queue

\* C5: when the pass ends, every entry that was due and below the budget
\* has been evaluated exactly once, with one of three outcomes: not a
\* recipe, and the URL is rejected and out of the queue; a recipe imported,
\* and the URL is in the Imported set and out of the queue; a recipe whose
\* import failed, and the entry is still queued with attempts one higher
\* and last_attempt the time of the pass.  The count the pass returns is
\* the number of URLs it marked imported.
RetryOutcomes ==
  pc = "sites" =>
    /\ \A u \in DOMAIN pass0.queue :
         LET info == pass0.queue[u]
         IN BelowBudget(info) /\ Due(info, pass0.time) =>
              /\ Cardinality(RetryEvents(u)) = 1
              /\ \A e \in RetryEvents(u) :
                   /\ e.verify # "recipe" =>
                        /\ u \in store.rejects
                        /\ u \in store.imported <=> u \in pass0.imported
                        /\ u \notin DOMAIN store.retry_queue
                   /\ e.imp = "ok" =>
                        /\ u \in store.imported
                        /\ u \in store.rejects <=> u \in pass0.rejects
                        /\ u \notin DOMAIN store.retry_queue
                   /\ e.imp = "fail" =>
                        /\ u \in DOMAIN store.retry_queue
                        /\ store.retry_queue[u] =
                             [info EXCEPT !.attempts = @ + 1,
                                          !.last_attempt = pass0.time]
                        /\ u \in store.imported <=> u \in pass0.imported
                        /\ u \in store.rejects <=> u \in pass0.rejects
    /\ ret_count =
         Cardinality({u \in DOMAIN pass0.queue :
                        \E e \in RetryEvents(u) : e.imp = "ok"})

ThreeRetryOutcomes ==
  /\ pc = "sites"
  /\ ret_count = 1
  /\ \E u \in DOMAIN pass0.queue :
       /\ \E e \in RetryEvents(u) : e.imp = "fail"
       /\ store.retry_queue[u].attempts = pass0.queue[u].attempts + 1
  /\ \E u \in DOMAIN pass0.queue :
       \E e \in RetryEvents(u) : e.imp = "ok"

\* C6 (as stated): an entry is re-evaluated by the pass exactly when it is
\* due.
DueIffEvaluated ==
  pc = "sites" =>
    \A u \in DOMAIN pass0.queue :
      RetryEvents(u) # {} <=> Due(pass0.queue[u], pass0.time)

\* C6 (amended): an entry below the attempt budget is re-evaluated by the
\* pass exactly when it is due; one that is not due is left as it was, with
\* no fetch and no import.
CooldownRespected ==
  pc = "sites" =>
    \A u \in DOMAIN pass0.queue :
      LET info == pass0.queue[u]
      IN BelowBudget(info) =>
           /\ RetryEvents(u) # {} <=> Due(info, pass0.time)
           /\ ~Due(info, pass0.time) =>
                /\ u \in DOMAIN store.retry_queue
                /\ store.retry_queue[u] = info
                /\ u \in store.imported <=> u \in pass0.imported
                /\ u \in store.rejects <=> u \in pass0.rejects

CoolingEntryUntouched ==
  /\ pc = "sites"
  /\ \E u, w \in DOMAIN pass0.queue :
       /\ BelowBudget(pass0.queue[u])
       /\ ~Due(pass0.queue[u], pass0.time)
       /\ store.retry_queue[u] = pass0.queue[u]
       /\ pass0.queue[w].last_attempt = BadTime
       /\ RetryEvents(w) # {}

\* C7: retry passes evaluate a queued URL at most as many times as the
\* attempt budget.
AttemptBudgetKept ==
  \A u \in Urls : evals[u] <= MAX_RETRY_ATTEMPTS

EndpointMemoized ==
  /\ (/\ calls > 0
      /\ cfg.mealie
      /\ ~cfg.dry_run
      /\ last_call.before = None
      /\ last_call.mresp[ENDPOINT_NEW] \in {404, 405}
      /\ last_call.mresp[ENDPOINT_OLD] = 201)
       => /\ working_endpoint = ENDPOINT_OLD
          /\ last_call.mposts = MealieEndpoints
  /\ last_call.before # None =>
       /\ last_call.mposts = <<last_call.before>>
       /\ working_endpoint = last_call.before

SecondEndpointReused ==
  /\ calls >= 2
  /\ last_call.before = ENDPOINT_OLD
  /\ last_call.mposts = <<ENDPOINT_OLD>>
  /\ working_endpoint = ENDPOINT_OLD

\* C10: in dry-run the pipeline sends no POST and the audit job no DELETE,
\* and a candidate the site loop does not skip is still fetched and
\* verified.
DryRunWritesNothing ==
  /\ cfg.dry_run => writes = {}
  /\ audit.dry => audit.writes = {}
  /\ cfg.dry_run /\ last # NoLast /\ ~last.skipped =>
       \E e \in log : e.url = last.url /\ e.phase = "site"

DryRunStillVerifies ==
  /\ cfg.dry_run
  /\ cfg.tandoor
  /\ writes = {}
  /\ \E e \in log : e.phase = "site" /\ e.imp = "ok"
  /\ \E e \in log : e.phase = "site" /\ e.verify = "not_recipe"

\* the status that decides a Mealie submission: the memoized endpoint's,
\* else the first endpoint's unless it sends the caller on, else the second's
Decisive(before, mresp) ==
  IF before # None THEN mresp[before]
  ELSE IF mresp[ENDPOINT_NEW] \in {404, 405, EXC} THEN mresp[ENDPOINT_OLD]
  ELSE mresp[ENDPOINT_NEW]

\* C11: in dry-run every import_recipe call reports success, whichever
\* backends are enabled.
DryRunDispatchSucceeds ==
  calls > 0 /\ cfg.dry_run => last_call.ok

\* C12: import_recipe reports success exactly when an enabled backend
\* accepted the URL (in dry-run an enabled backend accepts without being
\* contacted), and it calls the import of every enabled backend: outside
\* dry-run each enabled backend receives a POST whatever the other answered.
DispatchIsOr ==
  calls > 0 =>
    /\ last_call.ok <=>
         \/ /\ cfg.mealie
            /\ \/ cfg.dry_run
               \/ Decisive(last_call.before, last_call.mresp) \in {200, 201, 409}
         \/ /\ cfg.tandoor
            /\ \/ cfg.dry_run
               \/ last_call.tstatus \in {200, 201}
    /\ last_call.called = (IF cfg.mealie THEN {"mealie"} ELSE {})
                          \cup (IF cfg.tandoor THEN {"tandoor"} ELSE {})
    /\ ~cfg.dry_run =>
         /\ cfg.mealie => last_call.mposts # <<>>
         /\ cfg.tandoor => last_call.tposts # <<>>

SecondBackendAskedAfterSuccess ==
  /\ calls > 0
  /\ ~cfg.dry_run
  /\ last_call.mok
  /\ ~last_call.tok
  /\ last_call.mposts # <<>>
  /\ last_call.tposts # <<>>
  /\ last_call.ok

\* C13: outside dry-run a submission to a backend succeeds exactly when the
\* deciding status is a 2xx or 409.
StatusDecidesSuccess ==
  calls > 0 /\ ~cfg.dry_run =>
    /\ cfg.mealie =>
         (last_call.mok <=>
            Decisive(last_call.before, last_call.mresp) \in (200..299) \cup {409})
    /\ cfg.tandoor =>
         (last_call.tok <=> last_call.tstatus \in (200..299) \cup {409})

\* recipes that reach the Mealie library by other ways than this pipeline
\* (added by hand, or by an earlier installation): one more than a flush
\* threshold of them, from pages outside the configured sites
Curated == (MaxUrls + 1)..(MaxUrls + FLUSH_THRESHOLD + 1)

Curate ==
  /\ Curated \cap mealie_lib = {}
  /\ mealie_lib' = mealie_lib \cup Curated
  /\ UNCHANGED <<disk, store, pc, cfg, clock, runs, kill_now, working_endpoint,
                 crawl_delays, pipeline_locals, tandoor_lib, audit, audits,
                 history, limiter, web, page>>

\* One live run against a library that may hold curated recipes.
NextStore ==
  \/ Curate
  \/ StartRun(Config({FALSE}, {FALSE}, {TRUE}, {FALSE}), 1)
  \/ SyncLibrary
  \/ RetryScan
  \/ RetryEval
  \/ RetryFinish
  \/ SiteNext
  \/ SiteShuffle
  \/ Candidate
  \/ SiteEnd
  \/ RunEnd

SpecStore == Init /\ [][NextStore]_vars

\* the keys at which a collection in memory differs from its file
Differing(m, f) ==
  {k \in (DOMAIN m) \cup (DOMAIN f) :
     k \notin DOMAIN m \/ k \notin DOMAIN f \/ m[k] # f[k]}

\* what an abrupt end of the running pipeline would lose: the elements and
\* entries of the four collections that are not in the files as in memory
Unflushed ==
  Cardinality((store.imported \ disk.imported)
              \cup (disk.imported \ store.imported))
  + Cardinality((store.rejects \ disk.rejects)
                \cup (disk.rejects \ store.rejects))
  + Cardinality(Differing(store.retry_queue, disk.retry_queue))
  + Cardinality(Differing(store.sitemap_cache, disk.sitemap_cache))

\* C14: while a run is on, at most a flush threshold of mutations of the
\* four collections are missing from the files.
UnflushedBounded ==
  pc # "idle" => Unflushed <= FLUSH_THRESHOLD

\* C15: when a run has ended normally the files equal the collections in
\* memory.
NormalEndFlushed ==
  pc = "end" /\ ~kill_now => Unflushed = 0

\* C16: when a run that received a shutdown signal exits, the files hold
\* every import, rejection and retry update the run made.
SignalledEndFlushed ==
  pc = "end" /\ kill_now =>
    /\ store.imported = disk.imported
    /\ store.rejects = disk.rejects
    /\ store.retry_queue = disk.retry_queue

\* C17: no evaluation (fetch, verification, import) of a URL begins once
\* the shutdown flag is set, in the retry pass or in the site loop.
NoWorkAfterSignal ==
  \A e \in log : ~e.killed

\* ------------------------------------------ the rate limiter's timing
\* the delays get_crawl_delay may resolve for a domain, in ticks: the
\* default, or a shorter Crawl-delay read from robots.txt
CrawlDelays == {DEFAULT_CRAWL_DELAY * TICKS_PER_SECOND, TICKS_PER_SECOND}

\* random.uniform(0.5, 1.5), in halves: 0.5, 1.0, 1.5
JitterHalves == 1..3

\* n halves of a tick, rounded up to whole ticks
CeilHalf(n) == (n + 1) \div 2

\* wait_if_needed on the limiter's clock: lim is the limiter, resolved the
\* delay get_crawl_delay finds if the domain has none yet, jitter the
\* factor drawn, in halves
wait_if_needed_at(lim, domain, resolved, jitter) ==
  LET delay   == IF lim.delays[domain] # NoTime THEN lim.delays[domain]
                 ELSE resolved
      prev    == lim.last_request[domain]
      elapsed == lim.time - prev
      sleep   == IF prev # NoTime /\ elapsed < delay
                 THEN CeilHalf((delay - elapsed) * jitter) ELSE 0
      back    == lim.time + sleep
  IN [time         |-> back,
      last_request |-> [lim.last_request EXCEPT ![domain] = back],
      delays       |-> [lim.delays EXCEPT ![domain] = delay],
      wait         |-> [domain |-> domain, delay |-> delay,
                        since |-> IF prev = NoTime THEN NoTime
                                  ELSE back - prev]]

RateWait ==
  /\ pc = "limiter"
  /\ limiter.time < MaxClock
  /\ \E domain \in RateDomains, resolved \in CrawlDelays,
        jitter \in JitterHalves :
       limiter' = wait_if_needed_at(limiter, domain, resolved, jitter)
  /\ UNCHANGED <<disk, store, pc, cfg, clock, runs, kill_now, working_endpoint,
                 crawl_delays, pipeline_locals, world, audit, audits, history,
                 web, page>>

\* the caller's request and other work between two waits
RateWork ==
  /\ pc = "limiter"
  /\ limiter.time < MaxClock
  /\ limiter' = [limiter EXCEPT !.time = @ + 1]
  /\ UNCHANGED <<disk, store, pc, cfg, clock, runs, kill_now, working_endpoint,
                 crawl_delays, pipeline_locals, world, audit, audits, history,
                 web, page>>

\* One RateLimiter, called for any domain at any time.
InitRate ==
  /\ Fresh({EmptyMap})
  /\ pc = "limiter"
  /\ cfg = NoConfig

SpecRate == InitRate /\ [][RateWait \/ RateWork]_vars

\* C18: a wait_if_needed that is not the first for its domain returns at
\* least the domain's crawl delay after the previous one returned, and every
\* call records its return as the domain's last request.
SpacingKept ==
  /\ limiter.wait.since # NoTime => limiter.wait.since >= limiter.wait.delay
  /\ limiter.wait.domain # 0 =>
       limiter.last_request[limiter.wait.domain] = limiter.time

\* ------------------------------------------------- damaged data files
\* data/sitemap_cache.json as another program or an editor may have left
\* it: valid JSON, and the entry of one site with a timestamp that is no
\* ISO date
DamagedCaches ==
  {Put(EmptyMap, site, [sitemap_url |-> site, urls |-> SiteUrls(site),
                        timestamp |-> BadTime]) : site \in Sites}

InitFaults ==
  /\ FreshOn({EmptyFiles}
             \cup {[EmptyFiles EXCEPT !.sitemap_cache = c] : c \in DamagedCaches})
  /\ pc = "idle"
  /\ cfg = NoConfig

\* Live runs, with and without --no-cache, on files that may be damaged.
NextFaults ==
  \/ StartRun(Config({FALSE}, BOOLEAN, {TRUE}, {FALSE}), MaxRuns)
  \/ SyncLibrary
  \/ RetryScan
  \/ SiteNext
  \/ SiteShuffle
  \/ Candidate
  \/ SiteEnd
  \/ RunEnd
  \/ Abort

SpecFaults == InitFaults /\ [][NextFaults]_vars

\* C19: a run that no signal stopped ends only when every site has been
\* processed, whatever the servers answer and whatever the sitemap cache
\* and retry queue files hold.
RunReachesEverySite ==
  pc \in {"end", "aborted"} /\ ~kill_now => sites_left = <<>>

Pieces ==
  {"https://s.io", "/a", "?v=1", ".jpg",
   ".JPG", ".zip", ".webp", "/privacy-policy",
   "/About", "/login", "/wp-content/", "/cdn-cgi/",
   "/garlic-butter-shrimp", "/one-pan-chicken", "/", "-",
   "10", "5", "best", "Easy",
   "ways", "soups", "guide", "-for-winter"}

Spell(p) ==
  CASE p = "https://s.io" -> <<"h", "t", "t", "p", "s", ":", "/", "/", "s", ".", "i", "o">>
    [] p = "/a" -> <<"/", "a">>
    [] p = "?v=1" -> <<"?", "v", "=", "1">>
    [] p = ".jpg" -> <<".", "j", "p", "g">>
    [] p = ".JPG" -> <<".", "J", "P", "G">>
    [] p = ".zip" -> <<".", "z", "i", "p">>
    [] p = ".webp" -> <<".", "w", "e", "b", "p">>
    [] p = "/privacy-policy" -> <<"/", "p", "r", "i", "v", "a", "c", "y", "-", "p", "o", "l", "i", "c", "y">>
    [] p = "/About" -> <<"/", "A", "b", "o", "u", "t">>
    [] p = "/login" -> <<"/", "l", "o", "g", "i", "n">>
    [] p = "/wp-content/" -> <<"/", "w", "p", "-", "c", "o", "n", "t", "e", "n", "t", "/">>
    [] p = "/cdn-cgi/" -> <<"/", "c", "d", "n", "-", "c", "g", "i", "/">>
    [] p = "/garlic-butter-shrimp" -> <<"/", "g", "a", "r", "l", "i", "c", "-", "b", "u", "t", "t", "e", "r", "-", "s", "h", "r", "i", "m", "p">>
    [] p = "/one-pan-chicken" -> <<"/", "o", "n", "e", "-", "p", "a", "n", "-", "c", "h", "i", "c", "k", "e", "n">>
    [] p = "/" -> <<"/">>
    [] p = "-" -> <<"-">>
    [] p = "10" -> <<"1", "0">>
    [] p = "5" -> <<"5">>
    [] p = "best" -> <<"b", "e", "s", "t">>
    [] p = "Easy" -> <<"E", "a", "s", "y">>
    [] p = "ways" -> <<"w", "a", "y", "s">>
    [] p = "soups" -> <<"s", "o", "u", "p", "s">>
    [] p = "guide" -> <<"g", "u", "i", "d", "e">>
    [] p = "-for-winter" -> <<"-", "f", "o", "r", "-", "w", "i", "n", "t", "e", "r">>

RECURSIVE Flatten(_)
Flatten(ss) == IF ss = <<>> THEN <<>> ELSE Head(ss) \o Flatten(Tail(ss))

\* the text of a URL written with the pieces ps
Text(ps) == Flatten([i \in 1..Len(ps) |-> Spell(ps[i])])

UpperCase ==
  <<"A", "B", "C", "D", "E", "F", "G", "H", "I", "J", "K", "L", "M",
    "N", "O", "P", "Q", "R", "S", "T", "U", "V", "W", "X", "Y", "Z">>

LowerCase ==
  <<"a", "b", "c", "d", "e", "f", "g", "h", "i", "j", "k", "l", "m",
    "n", "o", "p", "q", "r", "s", "t", "u", "v", "w", "x", "y", "z">>

\* str.lower
lower(s) ==
  [i \in 1..Len(s) |->
     IF \E k \in 1..Len(UpperCase) : UpperCase[k] = s[i]
     THEN LowerCase[CHOOSE k \in 1..Len(UpperCase) : UpperCase[k] = s[i]]
     ELSE s[i]]

\* pat stands in s from position i on
HasAt(s, i, pat) ==
  /\ i >= 1
  /\ i + Len(pat) - 1 <= Len(s)
  /\ \A k \in 1..Len(pat) : s[i + k - 1] = pat[k]

\* pat in s
contains(s, pat) == \E i \in 1..(Len(s) + 1) : HasAt(s, i, pat)

\* s.endswith(pat)
endswith(s, pat) == HasAt(s, Len(s) - Len(pat) + 1, pat)

\* ------------------------------------------------------- SitemapCrawler
MAX_SUB_SITEMAPS == 3

MAX_SITEMAP_DEPTH == 2

\* fetch_sitemap_urls, lines 403 and 410: the endings and the path parts
\* of the garbage filter
junk_extensions ==
  {<<".", "j", "p", "g">>,
   <<".", "j", "p", "e", "g">>,
   <<".", "p", "n", "g">>,
   <<".", "g", "i", "f">>,
   <<".", "w", "e", "b", "p">>,
   <<".", "p", "d", "f">>,
   <<".", "z", "i", "p">>}

junk_paths ==
  {<<"/", "p", "r", "i", "v", "a", "c", "y", "-", "p", "o", "l", "i", "c", "y">>,
   <<"/", "c", "o", "n", "t", "a", "c", "t">>,
   <<"/", "a", "b", "o", "u", "t">>,
   <<"/", "l", "o", "g", "i", "n">>,
   <<"/", "w", "p", "-", "c", "o", "n", "t", "e", "n", "t", "/">>,
   <<"/", "c", "d", "n", "-", "c", "g", "i", "/">>}

\* variant: the filter compares the URL as it is written
clean_urls_as_written(raw_urls) ==
  SelectSeq(raw_urls,
    LAMBDA u :
      /\ ~\E ext \in junk_extensions : endswith(Text(u), ext)
      /\ ~\E x \in junk_paths : contains(Text(u), x))

\* the garbage filter, lines 399-416
clean_urls(raw_urls) ==
  SelectSeq(raw_urls,
    LAMBDA u :
      LET u_lower == lower(Text(u))
      IN /\ ~\E ext \in junk_extensions : endswith(u_lower, ext)
         /\ ~\E x \in junk_paths : contains(u_lower, x))

\* the sitemap documents of a site are numbered; the even ones have a URL
\* with 'post' or 'recipe' in it (line 391)
Docs == 1..MaxDocs

named_post_or_recipe(d) == d % 2 = 0

\* every sequence over S of at most n members
SeqsUpTo(S, n) == UNION {[1..k -> S] : k \in 0..n}

\* what a GET of a sitemap URL comes to: an index of sub-sitemaps, a list
\* of page URLs, XML with neither, or no document (a status other than
\* 200, a request or a parse that raises); subs are the <loc> of an index,
\* pages those of a page list
IndexDoc(locs) == [kind |-> "index", subs |-> locs, pages |-> <<>>]

UrlsetDoc(locs) == [kind |-> "urlset", subs |-> <<>>, pages |-> locs]

EmptyDoc == [kind |-> "empty", subs |-> <<>>, pages |-> <<>>]

ErrorDoc == [kind |-> "error", subs |-> <<>>, pages |-> <<>>]

\* variant: an index is expanded in full
expanded_all(targets) ==
  targets

\* line 395: targets[:MAX_SUB_SITEMAPS]
expanded(targets) ==
  Prefix(targets, MAX_SUB_SITEMAPS)

\* lines 390-393: the sub-sitemaps an index names, the post and recipe
\* ones if there are any
index_targets(sub_maps) ==
  LET targets == SelectSeq(sub_maps, named_post_or_recipe)
  IN IF targets = <<>> THEN sub_maps ELSE targets

\* fetch_sitemap_urls: the URLs returned, and the documents requested in
\* request order, each with its depth and the sub-sitemaps followed from it
RECURSIVE fetch_sitemap_urls(_, _, _)
fetch_sitemap_urls(docs, url, depth) ==
  IF depth > MAX_SITEMAP_DEPTH THEN [urls |-> <<>>, fetched |-> <<>>]
  ELSE LET r == docs[url]
           get(n) == <<[url |-> url, depth |-> depth, followed |-> n]>>
       IN IF r.kind = "index"
          THEN LET subs == expanded(index_targets(r.subs))
                   rs   == [i \in 1..Len(subs) |->
                              fetch_sitemap_urls(docs, subs[i], depth + 1)]
               IN [urls    |-> Flatten([i \in 1..Len(subs) |-> rs[i].urls]),
                   fetched |-> get(Len(subs))
                               \o Flatten([i \in 1..Len(subs) |-> rs[i].fetched])]
          ELSE IF r.kind = "urlset"
          THEN [urls |-> clean_urls(r.pages), fetched |-> get(0)]
          ELSE [urls |-> <<>>, fetched |-> get(0)]

\* a site serves the documents g
Publish(G) ==
  /\ pc = "crawler"
  /\ web.docs = EmptyMap
  /\ \E g \in G : web' = [web EXCEPT !.docs = g]
  /\ UNCHANGED <<disk, store, pc, cfg, clock, runs, kill_now, working_endpoint,
                 crawl_delays, pipeline_locals, world, audit, audits, history,
                 limiter, page>>

\* fetch_sitemap_urls(sitemap_url), sitemap_url being the first document
Crawl ==
  /\ pc = "crawler"
  /\ web.docs # EmptyMap
  /\ ~web.crawled
  /\ LET r == fetch_sitemap_urls(web.docs, 1, 0)
     IN web' = [web EXCEPT !.crawled = TRUE, !.urls = r.urls,
                           !.fetched = r.fetched]
  /\ UNCHANGED <<disk, store, pc, cfg, clock, runs, kill_now, working_endpoint,
                 crawl_delays, pipeline_locals, world, audit, audits, history,
                 limiter, page>>

InitCrawler ==
  /\ Fresh({EmptyMap})
  /\ pc = "crawler"
  /\ cfg = NoConfig

\* ------------------------------------------------------ sitemap graphs
\* the page list of the sitemaps that are no index
SampleUrls ==
  <<<<"https://s.io", "/a", ".jpg">>, <<"https://s.io", "/privacy-policy">>,
    <<"https://s.io", "/garlic-butter-shrimp">>,
    <<"https://s.io", "/one-pan-chicken">>>>

\* every graph of MaxDocs documents: an index may name any documents, itself
\* included, up to MaxLocs times
SitemapGraphs ==
  [Docs -> {IndexDoc(locs) : locs \in SeqsUpTo(Docs, MaxLocs)}
           \cup {UrlsetDoc(SampleUrls), EmptyDoc, ErrorDoc}]

NextSitemap == Publish(SitemapGraphs) \/ Crawl

SpecSitemap == InitCrawler /\ [][NextSitemap]_vars

\* C21: a crawl ends for every graph of sitemap documents; no document is
\* requested deeper than MAX_SITEMAP_DEPTH, no index has more than
\* MAX_SUB_SITEMAPS of its sub-sitemaps followed, and at most 1 + 3 + 9
\* documents are requested.
CrawlBounded ==
  web.crawled =>
    /\ \A i \in 1..Len(web.fetched) :
         /\ web.fetched[i].depth <= 2
         /\ web.fetched[i].followed <= 3
    /\ Len(web.fetched) <= 1 + 3 + 9

\* an index that names itself four times has been crawled
SelfReferenceCrawled ==
  /\ web.crawled
  /\ web.docs[1] = IndexDoc(<<1, 1, 1, 1>>)
  /\ Len(web.fetched) = 13

\* ------------------------------------------------------- page lists
\* the pieces the listed URLs are written with after the host: page names,
\* a query, file endings and administrative paths, in either case
FilterPieces ==
  {"/a", "/garlic-butter-shrimp", "?v=1", ".jpg", ".JPG", ".zip",
   "/privacy-policy", "/About", "/login", "/wp-content/"}

ListedUrls ==
  {<<"https://s.io">> \o ps : ps \in SeqsUpTo(FilterPieces, MaxPieces) \ {<<>>}}

\* one page list, of at most MaxPages URLs or the sample, nothing else
PageLists ==
  {[d \in Docs |-> IF d = 1 THEN UrlsetDoc(raw_urls) ELSE ErrorDoc] :
     raw_urls \in SeqsUpTo(ListedUrls, MaxPages) \cup {SampleUrls}}

NextFilter == Publish(PageLists) \/ Crawl

SpecFilter == InitCrawler /\ [][NextFilter]_vars

\* the pieces that are a file ending of the filter, and those that hold
\* one of its paths
ExtensionPieces == {".jpg", ".JPG", ".zip", ".webp"}

AdminPieces ==
  {"/privacy-policy", "/About", "/login", "/wp-content/", "/cdn-cgi/"}

\* u ends in a junk extension or has an administrative path in it
Junk(u) ==
  \/ u[Len(u)] \in ExtensionPieces
  \/ \E i \in 1..Len(u) : u[i] \in AdminPieces

\* C22: what a crawl returns for a page list is the list without the URLs
\* that end in a junk extension or hold an administrative path, whatever
\* their case, the others in the order listed; of a.jpg, privacy-policy,
\* garlic-butter-shrimp and one-pan-chicken the last two are returned.
GarbageFiltered ==
  web.crawled /\ web.docs[1].kind = "urlset" =>
    /\ web.urls = SelectSeq(web.docs[1].pages, LAMBDA u : ~Junk(u))
    /\ web.docs[1].pages = SampleUrls =>
         web.urls = <<<<"https://s.io", "/garlic-butter-shrimp">>,
                      <<"https://s.io", "/one-pan-chicken">>>>

\* a list with an upper-case ending and a page after it has been filtered
UpperCaseEndingDropped ==
  /\ web.crawled
  /\ web.docs[1].kind = "urlset"
  /\ web.docs[1].pages = <<<<"https://s.io", "/a", ".JPG">>,
                           <<"https://s.io", "/garlic-butter-shrimp">>>>
  /\ web.urls = <<<<"https://s.io", "/garlic-butter-shrimp">>>>

\* ------------------------------------------------------- RecipeVerifier
\* LISTICLE_REGEX, line 116: \d, and the words after the hyphen
Digits == {"0", "1", "2", "3", "4", "5", "6", "7", "8", "9"}

ListicleWords ==
  {<<"b", "e", "s", "t">>,
   <<"t", "o", "p">>,
   <<"m", "u", "s", "t">>,
   <<"f", "a", "v", "o", "r", "i", "t", "e">>,
   <<"e", "a", "s", "y">>,
   <<"h", "e", "a", "l", "t", "h", "y">>,
   <<"q", "u", "i", "c", "k">>,
   <<"w", "a", "y", "s">>,
   <<"t", "h", "i", "n", "g", "s">>}

BAD_KEYWORDS ==
  {<<"r", "o", "u", "n", "d", "u", "p">>,
   <<"c", "o", "l", "l", "e", "c", "t", "i", "o", "n">>,
   <<"g", "u", "i", "d", "e">>,
   <<"r", "e", "v", "i", "e", "w">>,
   <<"g", "i", "v", "e", "a", "w", "a", "y">>,
   <<"s", "h", "o", "p">>,
   <<"s", "t", "o", "r", "e">>,
   <<"p", "r", "o", "d", "u", "c", "t">>}

\* the first position from i on where s has one of the characters cs, or
\* Len(s) + 1
RECURSIVE find_any(_, _, _)
find_any(s, cs, i) ==
  IF i > Len(s) THEN Len(s) + 1
  ELSE IF s[i] \in cs THEN i
  ELSE find_any(s, cs, i + 1)

\* urlparse(url).path of scheme://host/path?query#fragment
url_path(s) ==
  LET host == IF \E i \in 1..Len(s) : HasAt(s, i, <<":", "/", "/">>)
              THEN (CHOOSE i \in 1..Len(s) :
                      /\ HasAt(s, i, <<":", "/", "/">>)
                      /\ \A j \in 1..(i - 1) : ~HasAt(s, j, <<":", "/", "/">>)) + 3
              ELSE 1
      from == find_any(s, {"/", "?", "#"}, host)
      to   == find_any(s, {"?", "#"}, from)
  IN SubSeq(s, from, to - 1)

\* s.strip("/")
RECURSIVE strip_slashes(_)
strip_slashes(s) ==
  IF s = <<>> THEN s
  ELSE IF Head(s) = "/" THEN strip_slashes(Tail(s))
  ELSE IF s[Len(s)] = "/" THEN strip_slashes(SubSeq(s, 1, Len(s) - 1))
  ELSE s

\* s.split("/")[-1]
RECURSIVE last_segment(_)
last_segment(s) ==
  IF \E i \in 1..Len(s) : s[i] = "/"
  THEN last_segment(Tail(s))
  ELSE s

\* line 450
url_slug(url) == lower(last_segment(strip_slashes(url_path(Text(url)))))

\* variant: LISTICLE_REGEX.match, the pattern at the start of the slug
listicle_match(slug) ==
  LET dash == find_any(slug, {"-"}, 1)
  IN /\ dash > 1
     /\ \A k \in 1..(dash - 1) : slug[k] \in Digits
     /\ \E w \in ListicleWords : HasAt(lower(slug), dash + 1, w)

\* LISTICLE_REGEX.search(slug): digits, a hyphen and a word, anywhere in
\* the slug and in any case
listicle_search(slug) ==
  \E i \in 1..Len(slug) :
    /\ slug[i] \in Digits
    /\ HasAt(slug, i + 1, <<"-">>)
    /\ \E w \in ListicleWords : HasAt(lower(slug), i + 2, w)

\* is_paranoid_skip: the reason to skip, None for none; title says whether
\* the page title holds "best recipes" or "top 10"
is_paranoid_skip(url, title) ==
  LET slug == url_slug(url)
  IN IF listicle_search(slug) THEN "Listicle detected"
     ELSE IF \E kw \in BAD_KEYWORDS : contains(slug, kw) THEN "Bad keyword"
     ELSE IF title THEN "Listicle title"
     ELSE None

\* variant: no paranoid filter is applied
verify_recipe_unfiltered(url, status, structural, title, mismatch) ==
  IF status = EXC
  THEN [is_recipe |-> FALSE, reason |-> "Exception", code |-> 0]
  ELSE IF status # 200
  THEN [is_recipe |-> FALSE, reason |-> "HTTP", code |-> status]
  ELSE IF ~structural
  THEN [is_recipe |-> FALSE, reason |-> "No recipe detected", code |-> 0]
  ELSE IF mismatch
  THEN [is_recipe |-> FALSE, reason |-> "Language mismatch", code |-> 0]
  ELSE [is_recipe |-> TRUE, reason |-> None, code |-> 0]

\* verify_recipe: status is the answer to the GET (EXC: it raised),
\* structural whether the page has Recipe JSON-LD or a known recipe class,
\* mismatch whether a language filter is set and another language detected;
\* code is the status code an "HTTP" reason names
verify_recipe(url, status, structural, title, mismatch) ==
  IF status = EXC
  THEN [is_recipe |-> FALSE, reason |-> "Exception", code |-> 0]
  ELSE IF status # 200
  THEN [is_recipe |-> FALSE, reason |-> "HTTP", code |-> status]
  ELSE IF ~structural
  THEN [is_recipe |-> FALSE, reason |-> "No recipe detected", code |-> 0]
  ELSE IF is_paranoid_skip(url, title) # None
  THEN [is_recipe |-> FALSE, reason |-> is_paranoid_skip(url, title),
        code |-> 0]
  ELSE IF mismatch
  THEN [is_recipe |-> FALSE, reason |-> "Language mismatch", code |-> 0]
  ELSE [is_recipe |-> TRUE, reason |-> None, code |-> 0]

\* what the language filter (lines 499-507) may meet: no filter set, under
\* 50 characters of text, the wanted language or another one detected, or
\* a detection that raises
LanguageOutcomes == {"off", "short", "match", "mismatch", "raise"}

\* line 504 is reached and the languages differ
language_mismatch(lang) == lang = "mismatch"

\* one page is verified
Verify(U) ==
  /\ pc = "verifier"
  /\ ~page.verified
  /\ \E url \in U, status \in {200, 404, EXC}, structural \in BOOLEAN,
        title \in BOOLEAN, lang \in LanguageOutcomes :
       LET r == verify_recipe(url, status, structural, title,
                              language_mismatch(lang))
       IN page' = [url |-> url, status |-> status, structural |-> structural,
                   title |-> title, lang |-> lang,
                   verified |-> TRUE, is_recipe |-> r.is_recipe,
                   reason |-> r.reason, code |-> r.code]
  /\ UNCHANGED <<disk, store, pc, cfg, clock, runs, kill_now, working_endpoint,
                 crawl_delays, pipeline_locals, world, audit, audits, history,
                 limiter, web>>

InitVerifier ==
  /\ Fresh({EmptyMap})
  /\ pc = "verifier"
  /\ cfg = NoConfig

\* the pieces slugs are written with: the path separator, the hyphen, a
\* number, listicle words in either case, a plain word and a bad keyword
SlugPieces == {"/", "-", "10", "best", "Easy", "soups", "guide"}

WinterSoups ==
  <<"https://s.io", "/", "soups", "/", "10", "-", "best", "-", "soups",
    "-for-winter">>

GarlicShrimp == <<"https://s.io", "/garlic-butter-shrimp">>

PageUrls ==
  {<<"https://s.io", "/">> \o ps : ps \in SeqsUpTo(SlugPieces, MaxSlug)}
  \cup {WinterSoups, GarlicShrimp}

SpecVerifier == InitVerifier /\ [][Verify(PageUrls)]_vars

\* the pieces of the last path segment of a URL written with pieces
RECURSIVE SlugOf(_)
SlugOf(ps) ==
  IF ps = <<>> THEN ps
  ELSE IF ps[Len(ps)] = "/" THEN SlugOf(SubSeq(ps, 1, Len(ps) - 1))
  ELSE IF \E i \in 1..Len(ps) : ps[i] = "/" THEN SlugOf(Tail(ps))
  ELSE ps

\* a number, the hyphen and a listicle word follow each other in the slug
ListicleSlug(url) ==
  LET slug == SlugOf(Tail(url))
  IN \E k \in 1..Len(slug) :
       /\ slug[k] = "10"
       /\ k + 2 <= Len(slug)
       /\ slug[k + 1] = "-"
       /\ slug[k + 2] \in {"best", "Easy", "ways"}

\* C23: a fetched page that is structurally a recipe is turned down as a
\* listicle exactly when the last path segment of its URL has the listicle
\* pattern, digits and a hyphen followed by one of the listicle words; the
\* slug 10-best-soups-for-winter is, the slug garlic-butter-shrimp is not.
ListicleRejected ==
  page.verified /\ page.status = 200 /\ page.structural =>
    /\ page.reason = "Listicle detected" <=> ListicleSlug(page.url)
    /\ page.reason = "Listicle detected" => ~page.is_recipe
    /\ page.url = WinterSoups => page.reason = "Listicle detected"
    /\ page.url = GarlicShrimp => page.reason # "Listicle detected"

\* the page .../10-best-soups-for-winter, structurally a recipe, was
\* verified
WinterSoupsVerified ==
  /\ page.verified
  /\ page.status = 200
  /\ page.structural
  /\ page.url = WinterSoups
  /\ ~page.is_recipe

\* a bad keyword is in the slug
KeywordSlug(url) == \E k \in 1..Len(SlugOf(Tail(url))) : SlugOf(Tail(url))[k] = "guide"

ImportedWereAccepted ==
  runs = 1 /\ pc # "idle" =>
    \A u \in store.imported \cup disk.imported :
      \/ u \in mealie_lib \cup tandoor_lib
      \/ /\ ~cfg.dry_run
         /\ \E e \in log : e.url = u /\ e.imp = "ok"

\* the Imported and the Rejected set as the pipeline has them: a run's
\* memory, and the files between two runs
HeldImported == IF pc = "idle" THEN disk.imported ELSE store.imported

HeldRejects == IF pc = "idle" THEN disk.rejects ELSE store.rejects

\* C25: the Imported and the Rejected set of the pipeline only grow, in
\* every step of a run and from each run to the next.
SetsOnlyGrow ==
  [][/\ HeldImported \subseteq HeldImported'
     /\ HeldRejects \subseteq HeldRejects']_vars

\* C26: with a pipeline run and the audit job at work on the same
\* rejected-urls file, no rewrite of the file by one of them drops a URL
\* the other has written, so that the file holds the rejections of both
\* when both have finished.
RejectsFileKeepsBoth ==
  [][disk.rejects \subseteq disk'.rejects]_vars

\* the entries of the pass's queue the pass resolved: those with the budget
\* spent, and those evaluated that were imported or found to be no recipe
Resolved ==
  {u \in DOMAIN pass0.queue :
     \/ ~BelowBudget(pass0.queue[u])
     \/ \E e \in RetryEvents(u) : e.imp = "ok" \/ e.verify # "recipe"}

\* C27: the keys of the retry queue stay as the pass found them while
\* eligible entries are evaluated; the resolved entries leave together
\* when the pass ends, and the queue then holds exactly the others.
ResolvedLeaveTogether ==
  /\ pc = "retry_eval" => DOMAIN store.retry_queue = DOMAIN pass0.queue
  /\ pc = "sites" /\ pass0 # NoPass =>
       DOMAIN store.retry_queue = DOMAIN pass0.queue \ Resolved

\* an entry is resolved and still in the queue, another is yet to be
\* evaluated
ResolvedEntryWaits ==
  /\ pc = "retry_eval"
  /\ eligible # <<>>
  /\ \E u \in Resolved : u \in DOMAIN store.retry_queue

\* C28: when a run ends, no URL of the retry queue is in the Imported or
\* the Rejected set, whether the retry pass or the site loop resolved it.
NoResolvedEntryAtEnd ==
  pc = "end" =>
    \A u \in DOMAIN store.retry_queue :
      u \notin store.imported \cup store.rejects

\* C29: a sitemap cache entry is written only for a discovery that found
\* URLs: no entry of the cache holds an empty URL list, so a site whose
\* sitemap could not be fetched or parsed is discovered anew by the next
\* run.
OnlySuccessCached ==
  \A site \in DOMAIN store.sitemap_cache :
    store.sitemap_cache[site].urls # <<>>

\* C30: the site loop passes over a candidate whose URL is in the Imported
\* or the Rejected set when it is reached, and that step changes nothing
\* but the loop's position: no domain is resolved or waited for, no request
\* is sent to the site or to a backend, and the collections, the files and
\* the site's import count stay as they are.
KnownCandidateSkipped ==
  [][/\ pc = "cands"
     /\ pc' = "cands"
     /\ cands # <<>>
     /\ cands' = Tail(cands)
     /\ Head(cands) \in store.imported \cup store.rejects
     => /\ UNCHANGED <<store, disk, imported_count>>
        /\ UNCHANGED <<crawl_delays, limiter, working_endpoint>>
        /\ UNCHANGED <<reqs, writes, log, mealie_lib, tandoor_lib>>]_vars

\* a rejected URL was reached in the site loop and passed over
RejectedCandidateReached ==
  /\ pc = "cands"
  /\ last.skipped
  /\ last.url \in store.rejects

\* ------------------------------------------------- --limit and --depth
\* the configurations C with every target of T and every depth of K
Limits(C, T, K) ==
  {[c EXCEPT !.target = t, !.depth = k] : c \in C, t \in T, k \in K}

\* Live runs with small targets and depths, on a site that lists MaxUrls
\* URLs.
NextLimits ==
  \/ StartRun(Limits(Config({FALSE}, {FALSE}, {TRUE}, {FALSE}),
                     0..MaxTarget, 0..MaxUrls), MaxRuns)
  \/ SyncLibrary
  \/ RetryScan
  \/ SiteNext
  \/ SiteShuffle
  \/ Candidate
  \/ SiteEnd
  \/ RunEnd

SpecLimits == InitCache /\ [][NextLimits]_vars

\* the URLs of a site the site loop has imported in this run
SiteImports(site) ==
  {e.url : e \in {f \in log : /\ f.phase = "site"
                              /\ f.imp = "ok"
                              /\ UrlDomain(f.url) = site}}

\* C32: in a run the site loop imports at most the target count of URLs
\* of a site, reaches only URLs among the first scan-depth ones of the
\* site's list, and with a target of 0 fetches no candidate.
LimitsKept ==
  pc # "idle" =>
    /\ \A site \in Sites : Cardinality(SiteImports(site)) <= cfg.target
    /\ pc = "cands" =>
         /\ imported_count <= cfg.target
         /\ Range(cands) \subseteq Range(Prefix(raw_candidates, cfg.depth))
         /\ \A e \in log :
              e.phase = "site" /\ UrlDomain(e.url) = Head(sites_left) =>
                e.url \in Range(Prefix(raw_candidates, cfg.depth))
    /\ cfg.target = 0 =>
         /\ \A e \in log : e.phase # "site"
         /\ "page" \notin reqs.site

\* the target is reached and a candidate of the site is left
TargetReachedEarly ==
  /\ pc = "cands"
  /\ cfg.target = 1
  /\ imported_count = 1
  /\ cands # <<>>

\* ------------------------------------------------- the change counter
\* One StorageManager on empty files, its methods called in any order for
\* one URL and one site.
StoreOps ==
  {"add_imported", "add_reject", "add_retry", "cache_sitemap", "update_stats",
   "flush_all"}

\* the store after the call op
StoreOp(S, op, url, site, t) ==
  CASE op = "add_imported"  -> add_imported(S, url)
    [] op = "add_reject"    -> add_reject(S, url)
    [] op = "add_retry"     -> add_retry(S, url, "import failed", t)
    [] op = "cache_sitemap" -> cache_sitemap(S, site, site, SiteUrls(site), t)
    [] op = "update_stats"  -> update_stats(S, site, [recipes_imported |-> 0])
    [] op = "flush_all"     -> flush_all(S)

StoreCall ==
  /\ pc = "storage"
  /\ \E op \in StoreOps :
       LET S == StoreOp([mem |-> store, dk |-> disk], op, 1, 1, now)
       IN /\ store' = S.mem
          /\ disk' = S.dk
  /\ UNCHANGED <<pc, cfg, clock, runs, kill_now, working_endpoint,
                 crawl_delays, pipeline_locals, world, audit, audits, history,
                 limiter, web, page>>

InitStorage ==
  /\ Fresh({EmptyMap})
  /\ pc = "storage"
  /\ cfg = NoConfig

SpecStorage == InitStorage /\ [][StoreCall]_vars

\* the files that hold exactly what the store has in memory
FilesOf(mem) ==
  [rejects |-> mem.rejects, imported |-> mem.imported,
   retry_queue |-> mem.retry_queue, stats |-> mem.stats,
   sitemap_cache |-> mem.sitemap_cache]

\* C33: every call of the store leaves the change counter between 0 and
\* the threshold less one; a call counts one change or resets the counter,
\* the call that reaches the threshold resets it, the counter is reset only
\* with every collection written to its file, and flush_all resets it.
CounterKept ==
  [][pc = "storage" =>
       /\ store'.changes \in 0..(FLUSH_THRESHOLD - 1)
       /\ store'.changes \in {0, store.changes + 1}
       /\ store.changes = FLUSH_THRESHOLD - 1 => store'.changes = 0
       /\ store'.changes = 0 => disk' = FilesOf(store')
       /\ store'.changes # 0 => disk' = disk]_vars

\* the counter is one change short of the threshold
CounterAtBrink ==
  /\ pc = "storage"
  /\ store.changes = FLUSH_THRESHOLD - 1
  /\ disk # FilesOf(store)

\* ------------------------------------------------- the endpoint memo
\* C34: in a session the memo of the Mealie endpoint is set at most once
\* and never changed; it is set to an endpoint that was posted to in that
\* call and answered with a status other than 404 and 405, never to one
\* whose request raised.
MemoWriteOnce ==
  [][/\ working_endpoint # None => working_endpoint' = working_endpoint
     /\ working_endpoint = None /\ working_endpoint' # None =>
          /\ working_endpoint' \in Range(last_call'.mposts)
          /\ last_call'.mresp[working_endpoint'] \notin {404, 405, EXC}]_vars

\* the first endpoint raised and the second, which answered, is the memo
MemoAfterRaise ==
  /\ calls > 0
  /\ last_call.before = None
  /\ last_call.mresp[ENDPOINT_NEW] = EXC
  /\ working_endpoint = ENDPOINT_OLD

\* ------------------------------------------- what the site loop rejects
\* C35: a candidate of the site loop whose verification failed for a
\* transient reason (the request raised, timed out, or ran out of retries
\* on a 5xx or 429 answer) is not put into the Rejected set.
TransientNotRejected ==
  \A e \in log :
    e.verify = "transient" /\ e.phase = "site" => e.url \notin store.rejects

==========================================================================
